---- MODULE Spec2Model ----
(***************************************************************************)
(* A model of annotatedyaml's loader (src/src/annotatedyaml/loader.py and  *)
(* reference.py): the Secrets store, the directory scans behind the        *)
(* !include_dir_* directives, parse_yaml's backend fallback, load_yaml's   *)
(* error mapping, !env_var, scalar construction and !include.              *)
(*                                                                         *)
(* File and directory names are sequences of one-character strings, so     *)
(* that startswith, fnmatch, sorted and splitext are computed on the text. *)
(* A path is a record [abs, parts] as pathlib sees it: purely lexical.     *)
(***************************************************************************)
EXTENDS Integers, Sequences, FiniteSets, TLC

VARIABLES
    \* ---- Secrets (loader.py 41-105)
    config_dir,      \* Secrets.config_dir
    cache,           \* Secrets._cache: secret_path -> dict
    secretFiles,     \* the file system: resolved directory -> secrets.yaml content
    pc,              \* position of the running Secrets.get: idle / walk / done
    requester_path,  \* get's argument
    secret,          \* get's argument
    secret_dir,      \* get's loop variable
    result,          \* what get returned or raised
    io,              \* the file load_yaml opened in the last step, if any
    gets,            \* number of get calls made on this instance
    writes,          \* number of changes made to the secrets.yaml files
    \* ---- Directory scans (loader.py 261-339)
    tree,            \* the scanned directory: file path -> content
    listing,         \* the order in which the file system listed directories
    directive,       \* the !include_dir_* directive that ran last
    nodeLine,        \* node.start_mark.line of the directive's node
    scanned,         \* the files load_yaml was called on, in call order
    scanResult,      \* what the directive returned or raised
    \* ---- parse_yaml (loader.py 194-228)
    HAS_C_LOADER,    \* whether yaml.CSafeLoader could be imported
    content,         \* parse_yaml's argument: a string or a stream
    backends,        \* the loaders yaml.load ran, with where each began to read
    parsed,          \* what parse_yaml returned or raised
    \* ---- !env_var (loader.py 342-352)
    environ,         \* os.environ
    envBody,         \* node.value of the !env_var node
    envResult,       \* what _env_var_yaml returned or raised
    \* ---- Scalar construction (reference.py 13-20, loader.py 125-150)
    scalarStream,    \* the stream the loader was made for
    scalarNode,      \* the scalar node handed to the constructor
    scalarResult,    \* what the constructor returned or raised
    \* ---- load_yaml and !include (loader.py 156-174, 242-258)
    fileSystem,      \* the file system: resolved file path -> file
    loadFname,       \* load_yaml's argument fname
    loadSecrets,     \* load_yaml's argument secrets
    opened,          \* the nested load_yaml calls made, in call order
    loadResult       \* what load_yaml returned or raised

secretVars == <<config_dir, cache, secretFiles, pc, requester_path, secret,
                secret_dir, result, io, gets, writes>>

scanVars == <<tree, listing, directive, nodeLine, scanned, scanResult>>

parseVars == <<HAS_C_LOADER, content, backends, parsed>>

envVars == <<environ, envBody, envResult>>

consVars == <<scalarStream, scalarNode, scalarResult>>

loadVars == <<fileSystem, loadFname, loadSecrets, opened, loadResult>>

vars == <<secretVars, scanVars, parseVars, envVars, consVars, loadVars>>

-----------------------------------------------------------------------------
(* Bounds *)

MaxGets == 2      \* get calls made on one Secrets instance
MaxWrites == 1    \* changes made to secrets.yaml files while it lives
MaxFiles == 3     \* files in a scanned directory tree
MaxLine == 1      \* largest 0-based line a node starts on
MaxText == 3      \* tokens in a text handed to parse_yaml
MaxBody == 5      \* characters in the body of an !env_var tag

-----------------------------------------------------------------------------
(* Names and paths *)

\* const.py is not among the sources; the name is the one the spec gives.
SECRET_YAML == <<"s", "e", "c", "r", "e", "t", "s", ".", "y", "a", "m", "l">>

DotDot == <<".", ".">>

MkPath(a, ps) == [abs |-> a, parts |-> ps]

\* pathlib.PurePath.parent: the path without its last part; the anchor is its
\* own parent ("/" for absolute paths, "." for relative ones).
Parent(p) ==
    IF p.parts = <<>> THEN p
    ELSE MkPath(p.abs, SubSeq(p.parts, 1, Len(p.parts) - 1))

IsPrefix(s, t) == Len(s) <= Len(t) /\ SubSeq(t, 1, Len(s)) = s

\* pathlib.PurePath.relative_to succeeds (no ValueError): same anchor and the
\* other path's parts are a prefix of this path's parts.  Nothing is resolved.
RelativeTo(p, other) == p.abs = other.abs /\ IsPrefix(other.parts, p.parts)

\* secret_dir / SECRET_YAML
Join(p, name) == MkPath(p.abs, Append(p.parts, name))

\* The process's working directory, against which open() resolves a
\* relative path.
Cwd == << <<"c">> >>

\* What the file system makes of a path when open() walks it: ".." steps to
\* the parent directory (the root is its own parent).
RECURSIVE Normalize(_, _)
Normalize(done, rest) ==
    IF rest = <<>> THEN done
    ELSE IF Head(rest) = DotDot
         THEN Normalize(IF done = <<>> THEN <<>>
                        ELSE SubSeq(done, 1, Len(done) - 1), Tail(rest))
         ELSE Normalize(Append(done, Head(rest)), Tail(rest))

Resolve(p) == Normalize(<<>>, (IF p.abs THEN <<>> ELSE Cwd) \o p.parts)

-----------------------------------------------------------------------------
(* Secrets *)

NoPath == MkPath(TRUE, << <<"-">> >>)

EmptyDict == [k \in {} |-> ""]

Missing == [kind |-> "missing", map |-> EmptyDict]
NotDict == [kind |-> "notdict", map |-> EmptyDict]
Dict(m) == [kind |-> "dict", map |-> m]

\* The directories that may hold a secrets.yaml (/ and /c), and what it may
\* hold.
SecretHomes == { <<>>, << <<"c">> >> }

SecretContents ==
    { Missing, NotDict,
      Dict([k \in {"pw"} |-> "v1"]),
      Dict([k \in {"pw", "logger"} |-> IF k = "pw" THEN "v2" ELSE "debug"]) }

SecretNames == { "pw", "logger" }

ConfigDirs == { MkPath(TRUE, << <<"c">> >>), MkPath(TRUE, <<>>), MkPath(FALSE, <<>>) }

\* The directories a requesting file may be named in: plain ones, and ones
\* written with ".." as os.path.join(os.path.dirname(name), "../x.yaml")
\* leaves them (loader.py 251).
RequesterDirs ==
    { <<>>, << <<"c">> >>, << <<"s">> >>, << <<"c">>, <<"s">> >>,
      << DotDot >>, << <<"c">>, DotDot >>, << <<"c">>, <<"s">>, DotDot >> }

Requesters ==
    { MkPath(a, Append(d, <<"x", ".", "y", "a", "m", "l">>)) : a \in BOOLEAN, d \in RequesterDirs }

FileAt(files, p) ==
    IF Resolve(Parent(p)) \in DOMAIN files /\ p.parts # <<>>
       /\ p.parts[Len(p.parts)] = SECRET_YAML
    THEN files[Resolve(Parent(p))]
    ELSE Missing

Returned(v) == [kind |-> "value", val |-> v]
Raised(e) == [kind |-> "error", val |-> e]
NoResult == [kind |-> "none", val |-> ""]

\* Secrets._load_secret_yaml (after the cache test): load_yaml's outcome on
\* secret_path, the isinstance test, and the removal of the "logger" key.
\* ok: no exception; dict: the secrets to cache; err: the exception raised.
LoadSecretFile(yaml_file) ==
    CASE yaml_file.kind = "missing" -> [ok |-> TRUE, dict |-> EmptyDict, err |-> ""]
      [] yaml_file.kind = "notdict" ->
            [ok |-> FALSE, dict |-> EmptyDict, err |-> "Secrets is not a dictionary"]
      [] OTHER ->
            [ok |-> TRUE,
             dict |-> [k \in DOMAIN yaml_file.map \ {"logger"} |-> yaml_file.map[k]],
             err |-> ""]

\* Is the cache consulted before the file?  (loader.py 77-78)
CacheHitNever(c, secret_path) == FALSE

CacheHit(c, secret_path) == secret_path \in DOMAIN c

\* The test that ends the walk (loader.py 57-61).
WalkLeavesRoot(dir, root) == ~RelativeTo(dir, root)

SecretsInit ==
    /\ config_dir \in ConfigDirs
    /\ secretFiles \in [SecretHomes -> SecretContents]
    /\ cache = <<>>
    /\ pc = "idle"
    /\ requester_path = NoPath
    /\ secret = ""
    /\ secret_dir = NoPath
    /\ result = NoResult
    /\ io = NoPath
    /\ gets = 0
    /\ writes = 0

SecretsIdle ==
    /\ config_dir = MkPath(TRUE, << <<"c">> >>)
    /\ secretFiles = [d \in SecretHomes |-> Missing]
    /\ cache = <<>>
    /\ pc = "idle"
    /\ requester_path = NoPath
    /\ secret = ""
    /\ secret_dir = NoPath
    /\ result = NoResult
    /\ io = NoPath
    /\ gets = 0
    /\ writes = 0

\* Secrets.get, up to the loop (loader.py 49-53)
GetCall ==
    /\ pc = "idle"
    /\ gets < MaxGets
    /\ \E r \in Requesters, n \in SecretNames :
          /\ requester_path' = r
          /\ secret' = n
          /\ secret_dir' = r
    /\ pc' = "walk"
    /\ result' = NoResult
    /\ io' = NoPath
    /\ gets' = gets + 1
    /\ UNCHANGED <<config_dir, cache, secretFiles, writes,
                   scanVars, parseVars, envVars, consVars, loadVars>>

\* One iteration of get's loop (loader.py 54-73), with the call of
\* _load_secret_yaml (75-105) it makes.
GetStep ==
    /\ pc = "walk"
    /\ LET dir == Parent(secret_dir)
           secret_path == Join(dir, SECRET_YAML)
           hit == CacheHit(cache, secret_path)
           loaded == LoadSecretFile(FileAt(secretFiles, secret_path))
           secrets == IF hit THEN cache[secret_path] ELSE loaded.dict
       IN  /\ secret_dir' = dir
           /\ IF WalkLeavesRoot(dir, config_dir)
              THEN /\ result' = Raised("Secret not defined")
                   /\ pc' = "done"
                   /\ io' = NoPath
                   /\ UNCHANGED cache
              ELSE /\ io' = IF hit THEN NoPath ELSE secret_path
                   /\ IF ~hit /\ ~loaded.ok
                      THEN /\ result' = Raised(loaded.err)
                           /\ pc' = "done"
                           /\ UNCHANGED cache
                      ELSE /\ cache' = IF hit THEN cache
                                       ELSE cache @@ (secret_path :> secrets)
                           /\ IF secret \in DOMAIN secrets
                              THEN /\ result' = Returned(secrets[secret])
                                   /\ pc' = "done"
                              ELSE /\ result' = NoResult
                                   /\ pc' = "walk"
    /\ UNCHANGED <<config_dir, secretFiles, requester_path, secret, gets, writes,
                   scanVars, parseVars, envVars, consVars, loadVars>>

\* The caller takes the result; the instance is ready for the next call.
GetReturn ==
    /\ pc = "done"
    /\ pc' = "idle"
    /\ io' = NoPath
    /\ requester_path' = NoPath
    /\ secret' = ""
    /\ secret_dir' = NoPath
    /\ result' = NoResult
    /\ UNCHANGED <<config_dir, cache, secretFiles, gets, writes,
                   scanVars, parseVars, envVars, consVars, loadVars>>

\* Someone creates, rewrites or deletes a secrets.yaml.
WriteSecretsFile ==
    /\ writes < MaxWrites
    /\ writes' = writes + 1
    /\ \E d \in SecretHomes, c \in SecretContents :
          /\ secretFiles[d] # c
          /\ secretFiles' = [secretFiles EXCEPT ![d] = c]
    /\ io' = NoPath
    /\ UNCHANGED <<config_dir, cache, pc, requester_path, secret, secret_dir,
                   result, gets, scanVars, parseVars, envVars, consVars, loadVars>>

-----------------------------------------------------------------------------
(* Directory scans: _is_file_valid, _find_files and the four !include_dir_*  *)
(* directives (loader.py 261-339)                                            *)

\* The characters of the names used here, in code-point order: Python
\* compares strings by code point.
Alphabet == << ".", "a", "b", "c", "d", "e", "h", "i", "k", "l", "m", "n",
               "r", "s", "t", "u", "x", "y", "z" >>

Ord(ch) == CHOOSE i \in 1..Len(Alphabet) : Alphabet[i] = ch

\* str.__le__
RECURSIVE StrLeq(_, _)
StrLeq(s, t) ==
    IF s = <<>> THEN TRUE
    ELSE IF t = <<>> THEN FALSE
    ELSE IF Head(s) = Head(t) THEN StrLeq(Tail(s), Tail(t))
    ELSE Ord(Head(s)) < Ord(Head(t))

\* sorted(files)
RECURSIVE Sorted(_)
Sorted(S) ==
    IF S = {} THEN <<>>
    ELSE LET least == CHOOSE x \in S : \A y \in S : StrLeq(x, y)
         IN  << least >> \o Sorted(S \ {least})

StartsWith(s, prefix) == IsPrefix(prefix, s)

EndsWith(s, suffix) ==
    Len(suffix) <= Len(s) /\ SubSeq(s, Len(s) - Len(suffix) + 1, Len(s)) = suffix

\* _is_file_valid
IsFileValidAlways(name) == TRUE

IsFileValid(name) == ~StartsWith(name, <<".">>)

YamlPattern == <<"*", ".", "y", "a", "m", "l">>

\* fnmatch.fnmatch(basename, pattern), for the patterns "*<suffix>" the
\* loader uses, on a case-sensitive file system.
FnMatch(name, pattern) == Head(pattern) = "*" /\ EndsWith(name, Tail(pattern))

\* os.path.basename, and os.path.splitext(...)[0]: the name up to its last
\* dot (leading dots are part of the root).
Basename(path) == path[Len(path)]

RECURSIVE LeadingDots(_)
LeadingDots(name) ==
    IF name # <<>> /\ Head(name) = "." THEN 1 + LeadingDots(Tail(name)) ELSE 0

SplitExtRoot(name) ==
    LET dots == { i \in (LeadingDots(name) + 1)..Len(name) : name[i] = "." }
    IN  IF dots = {} THEN name
        ELSE SubSeq(name, 1, (CHOOSE i \in dots : \A j \in dots : j <= i) - 1)

\* A scanned directory: file path (relative to the directory) -> content.
FilesIn(t, dir) ==
    { Basename(p) : p \in { q \in DOMAIN t : Len(q) = Len(dir) + 1 /\ IsPrefix(dir, q) } }

DirsIn(t, dir) ==
    { p[Len(dir) + 1] : p \in { q \in DOMAIN t : Len(q) > Len(dir) + 1 /\ IsPrefix(dir, q) } }

\* The files one directory yields (loader.py 270-273).
YieldedSortedWithinDirectory(t, dir) ==
    LET names == Sorted(FilesIn(t, dir))
        keep(b) == IsFileValid(b) /\ FnMatch(b, YamlPattern)
    IN  [i \in 1..Len(SelectSeq(names, keep)) |-> Append(dir, SelectSeq(names, keep)[i])]

\* os.walk lists the subdirectories in the order the file system gives them
\* (order); the loader prunes the hidden ones (loader.py 269).
SubdirsWalked(t, dir, order) ==
    LET here(d) == d \in DirsIn(t, dir) /\ IsFileValid(d)
    IN  SelectSeq(order, here)

\* _find_files: os.walk top-down.
RECURSIVE FindFilesFrom(_, _, _)
RECURSIVE WalkEach(_, _, _, _)
FindFilesFrom(t, dir, order) ==
    YieldedSortedWithinDirectory(t, dir)
        \o WalkEach(t, dir, order, SubdirsWalked(t, dir, order))

WalkEach(t, dir, order, subdirs) ==
    IF subdirs = <<>> THEN <<>>
    ELSE FindFilesFrom(t, Append(dir, Head(subdirs)), order)
            \o WalkEach(t, dir, order, Tail(subdirs))

FindFiles(t, order) == FindFilesFrom(t, <<>>, order)

\* Values a file may hold.
VNone == [t |-> "none", m |-> <<>>, l |-> <<>>]
VMap(f) == [t |-> "map", m |-> f, l |-> <<>>]
VList(q) == [t |-> "list", m |-> <<>>, l |-> q]
\* A directory entry that os.walk lists as a file and open() cannot find: a
\* symlink whose target is gone, or a file deleted since the listing.
VDangling == [t |-> "dangling", m |-> <<>>, l |-> <<>>]

\* if os.path.basename(fname) == SECRET_YAML: continue
SkipsSecrets(path) == Basename(path) = SECRET_YAML

ToLoad(found) == SelectSeq(found, LAMBDA p : ~SkipsSecrets(p))

\* The files load_yaml is called on, up to the first that raises.
RECURSIVE LoadedUntilError(_, _)
LoadedUntilError(t, paths) ==
    IF paths = <<>> THEN <<>>
    ELSE IF t[Head(paths)].t = "dangling" THEN << Head(paths) >>
    ELSE << Head(paths) >> \o LoadedUntilError(t, Tail(paths))

LoadFails(t, paths) == \E i \in DOMAIN paths : t[paths[i]].t = "dangling"

\* mapping.update(loaded_yaml)
Update(old, new) == new @@ old

\* _include_dir_named_yaml's loop
RECURSIVE NamedFold(_, _, _)
NamedFold(t, paths, acc) ==
    IF paths = <<>> THEN acc
    ELSE LET loaded == t[Head(paths)]
             value == IF loaded.t = "none" THEN VMap(<<>>) ELSE loaded
             filename == SplitExtRoot(Basename(Head(paths)))
         IN  NamedFold(t, Tail(paths), (filename :> value) @@ acc)

\* _include_dir_merge_named_yaml's loop
RECURSIVE MergeNamedFold(_, _, _)
MergeNamedFold(t, paths, acc) ==
    IF paths = <<>> THEN acc
    ELSE LET loaded == t[Head(paths)]
         IN  MergeNamedFold(t, Tail(paths),
                            IF loaded.t = "map" THEN Update(acc, loaded.m) ELSE acc)

\* _include_dir_list_yaml's comprehension
RECURSIVE ListFold(_, _)
ListFold(t, paths) ==
    IF paths = <<>> THEN <<>>
    ELSE (IF t[Head(paths)].t = "none" THEN <<>> ELSE << t[Head(paths)] >>)
            \o ListFold(t, Tail(paths))

\* _include_dir_merge_list_yaml's loop
RECURSIVE MergeListFold(_, _)
MergeListFold(t, paths) ==
    IF paths = <<>> THEN <<>>
    ELSE (IF t[Head(paths)].t = "list" THEN t[Head(paths)].l ELSE <<>>)
            \o MergeListFold(t, Tail(paths))

\* The name of the stream the directive is read from.
ScanLoaderName == <<"c", "f", "g", ".", "y", "a", "m", "l">>

NoRef == [file |-> <<>>, line |-> 0]

\* _add_reference_to_node_class (reference.py 19-20), for a node read from a
\* stream: it has a start mark.
Stamp(name, line) == [file |-> name, line |-> line + 1]

\* reference_object._add_reference is not among the sources; the spec: the
\* result is stamped with the directive node's own location.
AddReference(name, line) == [file |-> name, line |-> line + 1]

\* What a directive hands back over directory t listed in the given order:
\* val, and ref (the provenance set on val; include_dir_list sets none).
DirectiveResult(d, t, order, line) ==
    LET paths == ToLoad(FindFiles(t, order))
    IN  IF LoadFails(t, paths)
        THEN [kind |-> "error", val |-> <<>>, err |-> "FileNotFoundError", ref |-> NoRef]
        ELSE CASE d = "include_dir_named" ->
                    [kind |-> "value", val |-> NamedFold(t, paths, <<>>), err |-> "",
                     ref |-> Stamp(ScanLoaderName, line)]
               [] d = "include_dir_merge_named" ->
                    [kind |-> "value", val |-> MergeNamedFold(t, paths, <<>>), err |-> "",
                     ref |-> Stamp(ScanLoaderName, line)]
               [] d = "include_dir_list" ->
                    [kind |-> "value", val |-> ListFold(t, paths), err |-> "",
                     ref |-> NoRef]
               [] OTHER ->
                    [kind |-> "value", val |-> MergeListFold(t, paths), err |-> "",
                     ref |-> AddReference(ScanLoaderName, line)]

\* The names of the files and directories used here.
Name ==
    [sub |-> <<"s", "u", "b">>,
     d |-> <<"d">>,
     hid |-> <<".", "h", "i", "d">>,
     a |-> <<"a", ".", "y", "a", "m", "l">>,
     b |-> <<"b", ".", "y", "a", "m", "l">>,
     z |-> <<"z", ".", "y", "a", "m", "l">>,
     k |-> <<"k", ".", "y", "a", "m", "l">>,
     hidden |-> <<".", "h", ".", "y", "a", "m", "l">>,
     txt |-> <<"n", ".", "t", "x", "t">>]

\* What the scanned files hold.
Held ==
    [x1 |-> VMap([k \in {"x"} |-> 1]),
     x2y2 |-> VMap([k \in {"x", "y"} |-> 2]),
     y2 |-> VMap([k \in {"y"} |-> 2]),
     h9 |-> VMap([k \in {"h"} |-> 9]),
     list1 |-> VList(<<1>>)]

\* The files a scanned directory may hold, and what each may hold.
ScanCandidates ==
    { << Name.a >>, << Name.b >>, << Name.z >>, << Name.hidden >>,
      << SECRET_YAML >>, << Name.txt >>,
      << Name.sub, Name.a >>, << Name.sub, SECRET_YAML >>, << Name.d, Name.b >>,
      << Name.hid, Name.k >>, << Name.sub, Name.hid, Name.k >> }

ContentsFor(path) ==
    CASE path \in { << Name.a >>, << Name.sub, Name.a >> } ->
             { VNone, Held.x1, Held.x2y2, Held.list1 }
      [] path = << Name.z >> -> { Held.x1, Held.list1 }
      [] path = << Name.b >> -> { Held.y2 }
      [] path = << Name.d, Name.b >> -> { Held.x2y2, VDangling }
      [] OTHER -> { Held.h9 }

Trees ==
    UNION { { f \in [S -> UNION { ContentsFor(q) : q \in S }] :
                \A q \in S : f[q] \in ContentsFor(q) } :
            S \in { T \in SUBSET ScanCandidates : Cardinality(T) <= MaxFiles } }

\* The orders in which a file system may list the directories.
DirOrders ==
    { o \in [1..3 -> { Name.sub, Name.d, Name.hid }] : \A i, j \in 1..3 : o[i] = o[j] => i = j }

NoScanResult == [kind |-> "none", val |-> <<>>, err |-> "", ref |-> NoRef]

ScanInit ==
    /\ tree \in Trees
    /\ listing = <<>>
    /\ directive = "none"
    /\ nodeLine = 0
    /\ scanned = <<>>
    /\ scanResult = NoScanResult

ScanIdle ==
    /\ tree = <<>>
    /\ listing = <<>>
    /\ directive = "none"
    /\ nodeLine = 0
    /\ scanned = <<>>
    /\ scanResult = NoScanResult

\* A directive runs over the tree: the loader reads the node, the file system
\* lists the directories in some order.
RunDirective(d) ==
    \E order \in DirOrders, line \in 0..MaxLine :
        /\ directive = "none"
        /\ directive' = d
        /\ listing' = order
        /\ nodeLine' = line
        /\ scanned' = LoadedUntilError(tree, ToLoad(FindFiles(tree, order)))
        /\ scanResult' = DirectiveResult(d, tree, order, line)
        /\ UNCHANGED <<tree, secretVars, parseVars, envVars, consVars, loadVars>>

\* The caller has taken the result; the next directive may run.
ScanReturn ==
    /\ directive # "none"
    /\ directive' = "none"
    /\ listing' = <<>>
    /\ nodeLine' = 0
    /\ scanned' = <<>>
    /\ scanResult' = NoScanResult
    /\ UNCHANGED <<tree, secretVars, parseVars, envVars, consVars, loadVars>>

IncludeDirNamed == RunDirective("include_dir_named")

IncludeDirMergeNamed == RunDirective("include_dir_merge_named")

IncludeDirList == RunDirective("include_dir_list")

IncludeDirMergeList == RunDirective("include_dir_merge_list")

-----------------------------------------------------------------------------
(* parse_yaml, _parse_yaml_python, _parse_yaml (loader.py 194-228)           *)

\* A text is a sequence of tokens: "[" and "]" open and close a flow
\* sequence, "k" is a scalar.  Both backends accept the texts whose brackets
\* balance; the empty text holds no document and loads as None.
RECURSIVE TextsUpTo(_)
TextsUpTo(n) ==
    IF n = 0 THEN { <<>> }
    ELSE TextsUpTo(n - 1) \cup { Append(t, x) : t \in TextsUpTo(n - 1), x \in { "[", "]", "k" } }

\* The first token the parser cannot accept: an unmatched "]", or the end of
\* a text that leaves a "[" open; 0 when the text is well formed.
RECURSIVE FirstError(_, _, _)
FirstError(text, i, depth) ==
    IF i > Len(text) THEN (IF depth > 0 THEN Len(text) ELSE 0)
    ELSE IF text[i] = "[" THEN FirstError(text, i + 1, depth + 1)
    ELSE IF text[i] = "]"
         THEN (IF depth = 0 THEN i ELSE FirstError(text, i + 1, depth - 1))
    ELSE FirstError(text, i + 1, depth)

Malformed(text) == FirstError(text, 1, 0) # 0

Suffix(text, pos) == SubSeq(text, pos + 1, Len(text))

\* yaml.load(content, Loader=...) reading from position pos: a yaml.YAMLError,
\* or the document (None when there is none).
YamlLoad(text, pos) ==
    IF Malformed(Suffix(text, pos))
    THEN [ok |-> FALSE, none |-> FALSE, doc |-> <<>>]
    ELSE [ok |-> TRUE, none |-> Suffix(text, pos) = <<>>, doc |-> Suffix(text, pos)]

\* What parse_yaml may be handed: a str, or a stream.  A stream is at its
\* beginning.  "other" is any readable stream that is none of the three
\* classes parse_yaml tests for (io.BytesIO, a binary file, ...).
ContentKinds == { "str", "StringIO", "TextIOWrapper", "other" }

Contents ==
    { [kind |-> k, text |-> t, seekable |-> sk] :
        k \in ContentKinds, t \in TextsUpTo(MaxText), sk \in BOOLEAN }
    \ { c \in [kind : ContentKinds, text : TextsUpTo(MaxText), seekable : BOOLEAN] :
          c.kind \in {"str", "StringIO"} /\ ~c.seekable }

\* isinstance(content, (StringIO, TextIO, TextIOWrapper)): typing.TextIO has
\* no instances among the io classes.
IsRewound(c) == c.kind \in { "StringIO", "TextIOWrapper" }

\* Where a stream stands after a loader failed on it: the reader has read at
\* least up to the error, in blocks, so anywhere from there to the end.  A
\* str is not a stream: every load reads it whole.
PositionsAfterFailure(c) ==
    IF c.kind = "str" THEN { 0 }
    ELSE (FirstError(c.text, 1, 0))..Len(c.text)

Loaded(res) == [kind |-> "value", none |-> res.none, doc |-> res.doc, err |-> ""]
Failed(e) == [kind |-> "error", none |-> FALSE, doc |-> <<>>, err |-> e]
NotParsed == [kind |-> "none", none |-> FALSE, doc |-> <<>>, err |-> ""]

Ran(loader, pos) == [loader |-> loader, from |-> pos]

\* _parse_yaml_python, reading from pos
ParseYamlPython(c, pos) ==
    IF YamlLoad(c.text, pos).ok THEN Loaded(YamlLoad(c.text, pos))
    ELSE Failed("YAMLException")

ParseInit ==
    /\ HAS_C_LOADER \in BOOLEAN
    /\ content \in Contents
    /\ backends = <<>>
    /\ parsed = NotParsed

ParseIdle ==
    /\ HAS_C_LOADER = TRUE
    /\ content = [kind |-> "str", text |-> <<>>, seekable |-> TRUE]
    /\ backends = <<>>
    /\ parsed = NotParsed

\* parse_yaml without the C loader (loader.py 198-199)
ParseYamlNoCLoader ==
    /\ parsed = NotParsed
    /\ ~HAS_C_LOADER
    /\ backends' = << Ran("PythonSafeLoader", 0) >>
    /\ parsed' = ParseYamlPython(content, 0)
    /\ UNCHANGED <<HAS_C_LOADER, content, secretVars, scanVars, envVars, consVars, loadVars>>

\* parse_yaml when the fast loader succeeds (loader.py 200-201)
ParseYamlFast ==
    /\ parsed = NotParsed
    /\ HAS_C_LOADER
    /\ YamlLoad(content.text, 0).ok
    /\ backends' = << Ran("FastSafeLoader", 0) >>
    /\ parsed' = Loaded(YamlLoad(content.text, 0))
    /\ UNCHANGED <<HAS_C_LOADER, content, secretVars, scanVars, envVars, consVars, loadVars>>

\* parse_yaml when the fast loader raises yaml.YAMLError (loader.py 202-208)
ParseYamlFallback ==
    /\ parsed = NotParsed
    /\ HAS_C_LOADER
    /\ ~YamlLoad(content.text, 0).ok
    /\ \E at \in PositionsAfterFailure(content) :
          IF IsRewound(content)
          THEN IF content.seekable
               THEN /\ backends' = << Ran("FastSafeLoader", 0), Ran("PythonSafeLoader", 0) >>
                    /\ parsed' = ParseYamlPython(content, 0)
               ELSE \* content.seek(0, 0) raises io.UnsupportedOperation
                    /\ backends' = << Ran("FastSafeLoader", 0) >>
                    /\ parsed' = Failed("UnsupportedOperation")
          ELSE /\ backends' = << Ran("FastSafeLoader", 0), Ran("PythonSafeLoader", at) >>
               /\ parsed' = ParseYamlPython(content, at)
    /\ UNCHANGED <<HAS_C_LOADER, content, secretVars, scanVars, envVars, consVars, loadVars>>

\* The caller has the outcome.
ParseReturn ==
    /\ parsed # NotParsed
    /\ parsed' = NotParsed
    /\ backends' = <<>>
    /\ UNCHANGED <<HAS_C_LOADER, content, secretVars, scanVars, envVars, consVars, loadVars>>

-----------------------------------------------------------------------------
(* !env_var: _env_var_yaml (loader.py 342-352)                               *)

RECURSIVE BodiesUpTo(_)
BodiesUpTo(n) ==
    IF n = 0 THEN { <<>> }
    ELSE BodiesUpTo(n - 1)
            \cup { Append(b, ch) : b \in BodiesUpTo(n - 1), ch \in { " ", "G", "h" } }

\* str.split(): the maximal runs of non-whitespace characters.
RECURSIVE SplitFrom(_, _, _)
SplitFrom(rest, word, args) ==
    IF rest = <<>> THEN (IF word = <<>> THEN args ELSE Append(args, word))
    ELSE IF Head(rest) = " "
         THEN SplitFrom(Tail(rest), <<>>, IF word = <<>> THEN args ELSE Append(args, word))
         ELSE SplitFrom(Tail(rest), Append(word, Head(rest)), args)

Split(body) == SplitFrom(body, <<>>, <<>>)

\* " ".join(words)
RECURSIVE JoinSpaces(_)
JoinSpaces(words) ==
    IF words = <<>> THEN <<>>
    ELSE IF Len(words) = 1 THEN words[1]
    ELSE words[1] \o <<" ">> \o JoinSpaces(Tail(words))

\* os.getenv(name, default)
GetEnv(env, name, default) == IF name \in DOMAIN env THEN env[name] ELSE default

EnvReturned(v) == [kind |-> "value", val |-> v, err |-> ""]
EnvRaised(e, arg) == [kind |-> "error", val |-> arg, err |-> e]
NoEnvResult == [kind |-> "none", val |-> <<>>, err |-> ""]

\* _env_var_yaml
EnvVarYaml(env, body) ==
    LET args == Split(body)
    IN  IF Len(args) > 1
        THEN EnvReturned(GetEnv(env, args[1], JoinSpaces(Tail(args))))
        ELSE IF args = <<>> THEN EnvRaised("IndexError", <<>>)   \* args[0]
        ELSE IF args[1] \in DOMAIN env THEN EnvReturned(env[args[1]])
        ELSE EnvRaised("YAMLException", body)

\* The environments: G unset, or set to "hi" or to the empty string.
Environments ==
    { << >> } \cup { [n \in { <<"G">> } |-> v] : v \in { <<"h", "i">>, <<>> } }

EnvInit ==
    /\ environ \in Environments
    /\ envBody \in BodiesUpTo(MaxBody)
    /\ envResult = NoEnvResult

EnvIdle ==
    /\ environ = << >>
    /\ envBody = <<>>
    /\ envResult = NoEnvResult

\* The loader constructs an !env_var node.
EnvVar ==
    /\ envResult = NoEnvResult
    /\ envResult' = EnvVarYaml(environ, envBody)
    /\ UNCHANGED <<environ, envBody, secretVars, scanVars, parseVars, consVars, loadVars>>

\* The loader has the outcome.
EnvReturn ==
    /\ envResult # NoEnvResult
    /\ envResult' = NoEnvResult
    /\ UNCHANGED <<environ, envBody, secretVars, scanVars, parseVars, consVars, loadVars>>

-----------------------------------------------------------------------------
(* Scalar construction: the loader's name (loader.py 125-150), the string    *)
(* constructor and _add_reference_to_node_class (reference.py 13-20)         *)

\* What a loader may be made for: a str, a bytes, or a stream object that
\* has a name attribute (an open file) or has none (a BytesIO).
Streams ==
    { [kind |-> "str", hasName |-> FALSE, name |-> ""],
      [kind |-> "bytes", hasName |-> FALSE, name |-> ""],
      [kind |-> "stream", hasName |-> FALSE, name |-> ""],
      [kind |-> "stream", hasName |-> TRUE, name |-> "conf.yaml"],
      [kind |-> "stream", hasName |-> TRUE, name |-> "/c/conf.yaml"] }

\* FastSafeLoader.__init__ sets name "in same way as the Python loader does
\* in yaml.reader.__init__"; get_name returns it.
LoaderName(stream) ==
    IF stream.kind = "str" THEN "<unicode string>"
    ELSE IF stream.kind = "bytes" THEN "<byte string>"
    ELSE IF stream.hasName THEN stream.name
    ELSE "<file>"

\* node.start_mark: a mark with a 0-based line, or None.
NoMark == [present |-> FALSE, line |-> 0]
Mark(l) == [present |-> TRUE, line |-> l]

\* Scalar nodes: tag, value (its type and text) and start mark.
ScalarNodes ==
    { [tag |-> v.type, value |-> v, start_mark |-> mk] :
        v \in { [type |-> "str", text |-> "123"], [type |-> "str", text |-> "on"],
                [type |-> "str", text |-> "a b"], [type |-> "str", text |-> ""],
                [type |-> "int", text |-> "123"] },
        mk \in { NoMark } \cup { Mark(l) : l \in 0..MaxLine } }

\* objects.NodeStrClass is not among the sources; the spec: a string with
\* two out-of-band fields, absent until attached.
NodeStrClass(text) ==
    [kind |-> "NodeStrClass", text |-> text,
     hasFile |-> FALSE, config_file |-> "", hasLine |-> FALSE, line |-> 0]

\* _add_reference_to_node_class: the two assignments, in order.  The second
\* reads node.start_mark.line: with start_mark None it raises AttributeError,
\* after the first has taken effect.
AddReferenceToNodeClass(obj, name, node) ==
    LET named == [obj EXCEPT !.hasFile = TRUE, !.config_file = name]
    IN  IF ~node.start_mark.present
        THEN [raised |-> "AttributeError", obj |-> named]
        ELSE [raised |-> "",
              obj |-> [named EXCEPT !.hasLine = TRUE,
                                    !.line = node.start_mark.line + 1]]

Constructed(v) == [kind |-> "returned", value |-> v, exc |-> ""]
ConstructRaised(e, v) == [kind |-> "raised", value |-> v, exc |-> e]
NoScalarResult == [kind |-> "none", value |-> <<>>, exc |-> ""]

\* constructors._handle_scalar_tag is not among the sources; its tests and
\* the spec: a value that is not a str is returned as it is, a str is wrapped
\* in NodeStrClass and stamped by _add_reference_to_node_class.
HandleScalarTag(name, node) ==
    IF node.value.type # "str"
    THEN Constructed([kind |-> "plain", type |-> node.value.type,
                      text |-> node.value.text])
    ELSE LET stamped == AddReferenceToNodeClass(NodeStrClass(node.value.text),
                                                name, node)
         IN  IF stamped.raised # ""
             THEN ConstructRaised(stamped.raised, stamped.obj)
             ELSE Constructed(stamped.obj)

ConsInit ==
    /\ scalarStream \in Streams
    /\ scalarNode \in ScalarNodes
    /\ scalarResult = NoScalarResult

ConsIdle ==
    /\ scalarStream = <<>>
    /\ scalarNode = <<>>
    /\ scalarResult = NoScalarResult

\* The loader made for the stream constructs the node.
ConstructScalar ==
    /\ scalarResult = NoScalarResult
    /\ scalarResult' = HandleScalarTag(LoaderName(scalarStream), scalarNode)
    /\ UNCHANGED <<scalarStream, scalarNode, secretVars,
                   scanVars, parseVars, envVars, loadVars>>

\* The caller has the outcome.
ConstructReturn ==
    /\ scalarResult # NoScalarResult
    /\ scalarResult' = NoScalarResult
    /\ UNCHANGED <<scalarStream, scalarNode, secretVars,
                   scanVars, parseVars, envVars, loadVars>>

-----------------------------------------------------------------------------
(* load_yaml (loader.py 156-174) and !include (loader.py 242-258), with the  *)
(* constructors that call them while a document is built                     *)

\* os.path.dirname, on a stream name
OsPathDirname(p) ==
    IF p.parts = <<>> THEN p
    ELSE MkPath(p.abs, SubSeq(p.parts, 1, Len(p.parts) - 1))

\* os.path.join: an absolute second path replaces the first.
OsPathJoin(a, b) == IF b.abs THEN b ELSE MkPath(a.abs, a.parts \o b.parts)

\* node.value of a tag without a body: the empty string
NoArg == MkPath(FALSE, <<>>)

IncludeTargetFromCwd(name, value) == value

\* os.path.join(os.path.dirname(loader.get_name), node.value)
IncludeTarget(name, value) == OsPathJoin(OsPathDirname(name), value)

\* A file is absent ("missing"); listed in its directory though open()
\* cannot find it, a symlink whose target is gone ("dangling"); not readable
\* ("denied": PermissionError); not UTF-8 ("undecodable"); or a YAML
\* document ("doc").  A document is a block mapping with one entry per line
\* (none: the empty document).
File(kind, entries) == [kind |-> kind, doc |-> entries]

\* An entry is a key and a node: a plain scalar with its text, or a tag with
\* its body.
Entry(key, tag, text, body) == [key |-> key, tag |-> tag, text |-> text, path |-> body]

\* open(fname): relative names are looked up from the working directory.
FileAtPath(files, fname) ==
    IF Resolve(fname) \in DOMAIN files THEN files[Resolve(fname)] ELSE File("missing", <<>>)

\* Values, with the provenance (ref) the constructors attach.
PyNone == [kind |-> "None", text |-> "", items |-> <<>>, ref |-> NoRef]
Value(kind, text, items, ref) ==
    [kind |-> kind, text |-> text, items |-> items, ref |-> ref]

\* The text of an exception: what it says, the file it names, and the start
\* mark it prints (stream name and 1-based line).
NoMsg == [what |-> "", fname |-> NoArg, in |-> NoArg, line |-> 0]
MarkMsg(what, fname, name, line) ==
    [what |-> what, fname |-> fname, in |-> name, line |-> line + 1]

LoadReturned(v) ==
    [kind |-> "returned", value |-> v, exc |-> "", cause |-> "", msg |-> NoMsg]
LoadRaised(e, c, m) ==
    [kind |-> "raised", value |-> PyNone, exc |-> e, cause |-> c, msg |-> m]
NoLoadResult ==
    [kind |-> "none", value |-> PyNone, exc |-> "", cause |-> "", msg |-> NoMsg]

\* One nested load_yaml call: its arguments, and the node that made it.
Call(fname, secrets, tag, name, line) ==
    [fname |-> fname, secrets |-> secrets, tag |-> tag, from |-> name, line |-> line]

\* _raise_if_no_value: if not node.value: raise YAMLException
NeedsArgument(name, entry, line) ==
    [out |-> LoadRaised("YAMLException", "",
                        MarkMsg("needs an argument", NoArg, name, line)),
     calls |-> <<>>]

\* The except clauses of load_yaml, for what is raised inside its try.
LoadYamlExcept(raised) ==
    CASE raised.exc = "UnicodeDecodeError" ->
             LoadRaised("YAMLException", "UnicodeDecodeError", NoMsg)
      [] raised.exc = "FileNotFoundError" -> raised
      [] raised.exc \in { "PermissionError", "OSError" } ->
             LoadRaised("YAMLException", raised.exc, NoMsg)
      [] OTHER -> raised

\* The files of a directory as os.walk lists them: path below the directory
\* -> file.
Listed(files, dir) ==
    LET below == { q \in DOMAIN files : /\ Len(q) > Len(dir)
                                        /\ IsPrefix(dir, q)
                                        /\ files[q].kind # "missing" }
    IN  [r \in { SubSeq(q, Len(dir) + 1, Len(q)) : q \in below } |-> files[dir \o r]]

RECURSIVE LoadYaml(_, _, _)

\* _include_yaml
IncludeYaml(files, name, secrets, entry, line) ==
    IF entry.path = NoArg THEN NeedsArgument(name, entry, line)
    ELSE LET fname == IncludeTarget(name, entry.path)
             inner == LoadYaml(files, fname, secrets)
             calls == << Call(fname, secrets, entry.tag, name, line) >>
                          \o inner.calls
             loaded_yaml == IF inner.out.value = PyNone THEN Value("NodeDictClass", "", <<>>, NoRef)
                            ELSE inner.out.value
         IN  IF inner.out.kind = "raised"
             THEN [out |-> IF inner.out.exc = "FileNotFoundError"
                           THEN LoadRaised("YAMLException", "FileNotFoundError",
                                           MarkMsg("Unable to read file", fname, name, line))
                           ELSE inner.out,
                   calls |-> calls]
             ELSE [out |-> LoadReturned([loaded_yaml EXCEPT !.ref = AddReference(name, line)]),
                   calls |-> calls]

\* _include_dir_list_yaml's comprehension over the files found
RECURSIVE LoadEach(_, _, _, _, _, _, _)
LoadEach(files, loc, secrets, paths, name, line, acc) ==
    IF paths = <<>> THEN [out |-> LoadReturned(Value("list", "", acc, NoRef)), calls |-> <<>>]
    ELSE LET fname == MkPath(loc.abs, loc.parts \o Head(paths))
             inner == LoadYaml(files, fname, secrets)
             call == << Call(fname, secrets, "!include_dir_list", name, line) >>
         IN  IF inner.out.kind = "raised"
             THEN [out |-> inner.out, calls |-> call \o inner.calls]
             ELSE LET rest == LoadEach(files, loc, secrets, Tail(paths), name, line,
                                       IF inner.out.value = PyNone THEN acc
                                       ELSE Append(acc, [key |-> PyNone,
                                                         value |-> inner.out.value]))
                  IN  [out |-> rest.out, calls |-> call \o inner.calls \o rest.calls]

\* _include_dir_list_yaml
IncludeDirListYaml(files, name, secrets, entry, line) ==
    IF entry.path = NoArg THEN NeedsArgument(name, entry, line)
    ELSE LET loc == IncludeTarget(name, entry.path)
         IN  LoadEach(files, loc, secrets,
                      ToLoad(FindFiles(Listed(files, Resolve(loc)), <<>>)),
                      name, line, <<>>)

\* The constructor the node's tag selects (add_constructor, loader.py 369-379)
ConstructNode(files, name, secrets, entry, line) ==
    CASE entry.tag = "!include" -> IncludeYaml(files, name, secrets, entry, line)
      [] entry.tag = "!include_dir_list" ->
             IncludeDirListYaml(files, name, secrets, entry, line)
      [] entry.tag = "str" ->
             [out |-> LoadReturned(Value("NodeStrClass", entry.text, <<>>, Stamp(name, line))),
              calls |-> <<>>]
      [] OTHER -> [out |-> LoadReturned(Value("plain", entry.text, <<>>, NoRef)), calls |-> <<>>]

\* constructors._handle_mapping_tag is not among the sources; the spec: the
\* keys and values are constructed in document order and the mapping, like
\* every string, is stamped with its node's start line and the stream's name.
RECURSIVE ConstructPairs(_, _, _, _, _, _, _)
ConstructPairs(files, name, secrets, entries, i, items, calls) ==
    IF i > Len(entries)
    THEN [out |-> LoadReturned(Value("NodeDictClass", "", items, Stamp(name, 0))), calls |-> calls]
    ELSE LET key == Value("NodeStrClass", entries[i].key, <<>>, Stamp(name, i - 1))
             built == ConstructNode(files, name, secrets, entries[i], i - 1)
         IN  IF built.out.kind = "raised"
             THEN [out |-> built.out, calls |-> calls \o built.calls]
             ELSE ConstructPairs(files, name, secrets, entries, i + 1,
                                 Append(items, [key |-> key, value |-> built.out.value]),
                                 calls \o built.calls)

\* load_yaml: open, parse (the stream's name is fname), and the except
\* clauses.
LoadYaml(files, fname, secrets) ==
    LET file == FileAtPath(files, fname)
    IN  CASE file.kind \in { "missing", "dangling" } ->
                 [out |-> LoadYamlExcept(LoadRaised("FileNotFoundError", "", NoMsg)),
                  calls |-> <<>>]
          [] file.kind = "denied" ->
                 [out |-> LoadYamlExcept(LoadRaised("PermissionError", "", NoMsg)),
                  calls |-> <<>>]
          [] file.kind = "undecodable" ->
                 [out |-> LoadYamlExcept(LoadRaised("UnicodeDecodeError", "", NoMsg)),
                  calls |-> <<>>]
          [] file.doc = <<>> -> [out |-> LoadReturned(PyNone), calls |-> <<>>]
          [] OTHER ->
                 LET built == ConstructPairs(files, fname, secrets, file.doc, 1, <<>>, <<>>)
                 IN  [out |-> IF built.out.kind = "raised"
                              THEN LoadYamlExcept(built.out) ELSE built.out,
                      calls |-> built.calls]

\* The files of the configurations loaded here: /c/a.yaml, /c/d/a.yaml,
\* /c/b.yaml and /c/d/b.yaml; the working directory is /c.
LoadPath ==
    [top |-> << <<"c">>, Name.a >>,
     mid |-> << <<"c">>, Name.d, Name.a >>,
     leaf |-> << <<"c">>, Name.b >>,
     dleaf |-> << <<"c">>, Name.d, Name.b >>]

\* What each may hold.  Includes lead from a.yaml to d/a.yaml and from both
\* to the two b.yaml, so no file includes itself.
FilesAt(path) ==
    CASE path = LoadPath.top ->
           { File("missing", <<>>), File("denied", <<>>), File("undecodable", <<>>),
             File("doc", <<>>),
             File("doc", << Entry("foo", "!include", "", MkPath(FALSE, << Name.b >>)) >>),
             File("doc", << Entry("n", "int", "1", NoArg),
                            Entry("foo", "!include", "",
                                  MkPath(FALSE, << Name.d, Name.a >>)) >>),
             File("doc", << Entry("foo", "!include", "", MkPath(TRUE, LoadPath.dleaf)) >>),
             File("doc", << Entry("foo", "!include", "", NoArg) >>),
             File("doc", << Entry("foo", "!include_dir_list", "",
                                  MkPath(FALSE, << Name.d >>)) >>) }
      [] path = LoadPath.mid ->
           { File("missing", <<>>), File("undecodable", <<>>),
             File("doc", << Entry("x", "!include", "", MkPath(FALSE, << Name.b >>)) >>),
             File("doc", << Entry("s", "str", "v", NoArg),
                            Entry("x", "!include", "",
                                  MkPath(FALSE, << DotDot, Name.b >>)) >>) }
      [] path = LoadPath.leaf ->
           { File("missing", <<>>), File("denied", <<>>), File("doc", <<>>),
             File("doc", << Entry("bar", "int", "1", NoArg) >>) }
      [] OTHER ->
           { File("missing", <<>>), File("dangling", <<>>), File("undecodable", <<>>),
             File("doc", <<>>),
             File("doc", << Entry("s", "str", "v", NoArg),
                            Entry("t", "str", "w", NoArg) >>) }

FileSystems ==
    LET paths == { LoadPath.top, LoadPath.mid, LoadPath.leaf, LoadPath.dleaf }
    IN  { f \in [paths -> UNION { FilesAt(q) : q \in paths }] :
            \A q \in paths : f[q] \in FilesAt(q) }

\* load_yaml is called with a.yaml, /c/a.yaml, d/../a.yaml or d/a.yaml, with
\* a Secrets instance or none.
LoadInit ==
    /\ fileSystem \in FileSystems
    /\ loadFname \in { MkPath(FALSE, << Name.a >>),
                       MkPath(TRUE, LoadPath.top),
                       MkPath(FALSE, << Name.d, DotDot, Name.a >>),
                       MkPath(FALSE, << Name.d, Name.a >>) }
    /\ loadSecrets \in { "None", "secrets" }
    /\ opened = <<>>
    /\ loadResult = NoLoadResult

LoadIdle ==
    /\ fileSystem = <<>>
    /\ loadFname = NoArg
    /\ loadSecrets = "None"
    /\ opened = <<>>
    /\ loadResult = NoLoadResult

\* load_yaml(fname, secrets), with every nested load its directives make
LoadYamlCall ==
    /\ loadResult = NoLoadResult
    /\ LET done == LoadYaml(fileSystem, loadFname, loadSecrets)
       IN  /\ loadResult' = done.out
           /\ opened' = done.calls
    /\ UNCHANGED <<fileSystem, loadFname, loadSecrets, secretVars, scanVars,
                   parseVars, envVars, consVars>>

\* The caller has the outcome.
LoadYamlReturn ==
    /\ loadResult # NoLoadResult
    /\ loadResult' = NoLoadResult
    /\ opened' = <<>>
    /\ UNCHANGED <<fileSystem, loadFname, loadSecrets, secretVars, scanVars,
                   parseVars, envVars, consVars>>

-----------------------------------------------------------------------------
(* Specifications: one per part of the loader; the parts share no state.     *)

\* One Secrets instance over files nobody touches.
Init == SecretsInit /\ ScanIdle /\ ParseIdle /\ EnvIdle /\ ConsIdle /\ LoadIdle

Next == GetCall \/ GetStep \/ GetReturn

Spec == Init /\ [][Next]_vars

\* The same, with a lookup under way running on: the interpreter executes the
\* next iteration of get's loop, and the caller takes the result.
SpecFair == Spec /\ WF_vars(GetStep) /\ WF_vars(GetReturn)

\* One Secrets instance while the files change under it.
NextFs == GetCall \/ GetStep \/ GetReturn \/ WriteSecretsFile

SpecFs == Init /\ [][NextFs]_vars

\* The four directory directives over every small directory tree.
InitScan == ScanInit /\ SecretsIdle /\ ParseIdle /\ EnvIdle /\ ConsIdle /\ LoadIdle

NextScan ==
    \/ IncludeDirNamed \/ IncludeDirMergeNamed \/ IncludeDirList \/ IncludeDirMergeList
    \/ ScanReturn

SpecScan == InitScan /\ [][NextScan]_vars

\* parse_yaml over every short text, handed over as a string or a stream.
InitParse == ParseInit /\ SecretsIdle /\ ScanIdle /\ EnvIdle /\ ConsIdle /\ LoadIdle

NextParse == ParseYamlNoCLoader \/ ParseYamlFast \/ ParseYamlFallback \/ ParseReturn

SpecParse == InitParse /\ [][NextParse]_vars

\* !env_var over every short body and environment.
InitEnv == EnvInit /\ SecretsIdle /\ ScanIdle /\ ParseIdle /\ ConsIdle /\ LoadIdle

NextEnv == EnvVar \/ EnvReturn

SpecEnv == InitEnv /\ [][NextEnv]_vars

\* The string constructor over every stream and small scalar node.
InitCons == ConsInit /\ SecretsIdle /\ ScanIdle /\ ParseIdle /\ EnvIdle /\ LoadIdle

NextCons == ConstructScalar \/ ConstructReturn

SpecCons == InitCons /\ [][NextCons]_vars

\* load_yaml over every small configuration.
InitLoad == LoadInit /\ SecretsIdle /\ ScanIdle /\ ParseIdle /\ EnvIdle /\ ConsIdle

NextLoad == LoadYamlCall \/ LoadYamlReturn

SpecLoad == InitLoad /\ [][NextLoad]_vars

-----------------------------------------------------------------------------
(* C1: the result of Secrets.get *)

\* The secret set a secrets.yaml defines: its mapping, "logger" apart (the
\* spec keeps that key out of the secret set).
Defines(yaml_file, name) ==
    yaml_file.kind = "dict" /\ name \in DOMAIN yaml_file.map /\ name # "logger"

\* The directories the claim lets a lookup consult, nearest first: the
\* directory of the requester and its ancestors, as long as they are the
\* config root or below it.
RECURSIVE AncestorsWithin(_, _)
AncestorsWithin(dir, root) ==
    IF ~IsPrefix(root, dir) THEN <<>>
    ELSE IF dir = <<>> THEN << dir >>
    ELSE << dir >> \o AncestorsWithin(SubSeq(dir, 1, Len(dir) - 1), root)

HomeContent(files, dir) == IF dir \in DOMAIN files THEN files[dir] ELSE Missing

RECURSIVE FirstDefining(_, _, _)
FirstDefining(files, dirs, name) ==
    IF dirs = <<>> THEN Raised("Secret not defined")
    ELSE IF Defines(HomeContent(files, Head(dirs)), name)
         THEN Returned(HomeContent(files, Head(dirs)).map[name])
         ELSE FirstDefining(files, Tail(dirs), name)

SameAnchor(p, q) == p.abs = q.abs

ClaimedResult(files, requester, root, name) ==
    IF ~SameAnchor(requester, root) THEN Raised("Secret not defined")
    ELSE FirstDefining(files,
                       AncestorsWithin(Resolve(Parent(requester)), Resolve(root)),
                       name)

AllSecretsAreMappings == \A d \in DOMAIN secretFiles : secretFiles[d].kind # "notdict"

\* C1 (as stated): over secrets.yaml files that are mappings, a finished
\* Secrets.get returned the value of the nearest ancestor directory of the
\* requester, within the config root, that defines the name, or raised
\* "Secret not defined" when there is none; and no secrets.yaml outside the
\* config root was opened.
C1_SecretLookup ==
    /\ (pc = "done" /\ AllSecretsAreMappings)
          => result = ClaimedResult(secretFiles, requester_path, config_dir, secret)
    /\ io # NoPath => IsPrefix(Resolve(config_dir), Resolve(Parent(io)))

\* The same statement holds of every requester path written without "..".
C1_SecretLookupPlainPaths ==
    (\A i \in DOMAIN requester_path.parts : requester_path.parts[i] # DotDot)
        => C1_SecretLookup

-----------------------------------------------------------------------------
(* C2, C3, C6: the directory scans *)

\* C2 (as stated): in one scan, whenever file f is loaded before file g,
\* basename(f) <= basename(g).
C2_ScanOrder ==
    \A i, j \in DOMAIN scanned :
        i < j => StrLeq(Basename(scanned[i]), Basename(scanned[j]))

\* What holds instead: the order is ascending among the files of one directory.
C2_OrderWithinDirectory ==
    \A i, j \in DOMAIN scanned :
        (i < j /\ SubSeq(scanned[i], 1, Len(scanned[i]) - 1)
                    = SubSeq(scanned[j], 1, Len(scanned[j]) - 1))
            => StrLeq(Basename(scanned[i]), Basename(scanned[j]))

Hidden(name) == name # <<>> /\ Head(name) = "."

Permitted(path) ==
    /\ EndsWith(Basename(path), <<".", "y", "a", "m", "l">>)
    /\ ~Hidden(Basename(path))
    /\ Basename(path) # SECRET_YAML
    /\ \A i \in 1..(Len(path) - 1) : ~Hidden(path[i])

PermittedPart(t) == [q \in { r \in DOMAIN t : Permitted(r) } |-> t[q]]

\* C3: every file a scan loads matches *.yaml, is not hidden, is not
\* secrets.yaml and lies under no hidden directory; and the directive's result
\* is the one it gives over the tree without the other files: they
\* contribute nothing.
C3_OnlyPermittedFiles ==
    /\ \A i \in DOMAIN scanned : Permitted(scanned[i])
    /\ directive # "none"
          => scanResult = DirectiveResult(directive, PermittedPart(tree), listing, nodeLine)

\* A scan that loaded a file, over a tree that also holds a secrets.yaml and
\* a *.yaml file below a hidden directory.
C3_Witness ==
    /\ directive # "none"
    /\ scanResult.kind = "value"
    /\ scanned # <<>>
    /\ \E q \in DOMAIN tree : Basename(q) = SECRET_YAML
    /\ \E q \in DOMAIN tree : \E i \in 1..(Len(q) - 1) : Hidden(q[i])

HasKey(t, path, key) == t[path].t = "map" /\ key \in DOMAIN t[path].m

Scanned == { scanned[i] : i \in DOMAIN scanned }

\* C6 (as stated): the merged mapping holds exactly the keys of the scanned
\* files that are mappings, each with the value of the last such file in
\* sorted-filename order; files that hold no mapping add nothing and raise
\* nothing; and a.yaml {x: 1} with b.yaml {y: 2} gives {x: 1, y: 2} merged and
\* {a: {x: 1}, b: {y: 2}} named.
C6_MergeNamed ==
    /\ (directive = "include_dir_merge_named" /\ scanResult.kind = "value")
         => /\ DOMAIN scanResult.val
                 = { k \in {"x", "y", "h"} : \E f \in Scanned : HasKey(tree, f, k) }
            /\ \A k \in DOMAIN scanResult.val :
                 \E f \in Scanned :
                    /\ HasKey(tree, f, k)
                    /\ \A g \in Scanned :
                          HasKey(tree, g, k) => StrLeq(Basename(g), Basename(f))
                    /\ scanResult.val[k] = tree[f].m[k]
    /\ (directive # "none" /\ \A f \in Scanned : tree[f].t # "dangling")
         => scanResult.kind = "value"
    /\ (DOMAIN tree = { << Name.a >>, << Name.b >> } /\ tree[<< Name.a >>] = Held.x1)
         => /\ directive = "include_dir_merge_named"
                 => scanResult.val = [k \in {"x", "y"} |-> IF k = "x" THEN 1 ELSE 2]
            /\ directive = "include_dir_named"
                 => scanResult.val = (<<"a">> :> Held.x1 @@ <<"b">> :> Held.y2)

\* What holds instead: the last such file in the order of the scan.
C6_MergeNamedInScanOrder ==
    (directive = "include_dir_merge_named" /\ scanResult.kind = "value")
        => /\ DOMAIN scanResult.val
                = { k \in {"x", "y", "h"} : \E f \in Scanned : HasKey(tree, f, k) }
           /\ \A k \in DOMAIN scanResult.val :
                \E i \in DOMAIN scanned :
                    /\ HasKey(tree, scanned[i], k)
                    /\ \A j \in DOMAIN scanned : HasKey(tree, scanned[j], k) => j <= i
                    /\ scanResult.val[k] = tree[scanned[i]].m[k]

-----------------------------------------------------------------------------
(* C4: parse_yaml's fallback *)

\* C4 (as stated): with the fast backend available it runs first; if it
\* succeeds the diagnostic backend does not run; if it fails the diagnostic
\* backend parses the same content from its beginning; and for every
\* malformed input parse_yaml raises the loader error that wraps the
\* diagnostic backend's error, and returns no value.
C4_ParseFallback ==
    (HAS_C_LOADER /\ parsed # NotParsed)
        => /\ backends[1] = Ran("FastSafeLoader", 0)
           /\ ~Malformed(content.text) => Len(backends) = 1 /\ parsed.kind = "value"
           /\ Malformed(content.text)
                => /\ backends = << Ran("FastSafeLoader", 0), Ran("PythonSafeLoader", 0) >>
                   /\ parsed = Failed("YAMLException")

\* What holds instead: the same, for a str, a StringIO and a seekable
\* TextIOWrapper.
C4_ParseFallbackRewindable ==
    (content.kind \in {"str", "StringIO", "TextIOWrapper"} /\ content.seekable)
        => C4_ParseFallback

-----------------------------------------------------------------------------
(* C7: !env_var *)

C7_Value ==
    LET args == Split(envBody)
    IN  /\ (args # <<>> /\ args[1] \in DOMAIN environ)
              => envResult = EnvReturned(environ[args[1]])
        /\ (Len(args) > 1 /\ args[1] \notin DOMAIN environ)
              => envResult = EnvReturned(JoinSpaces(Tail(args)))
        /\ (Len(args) = 1 /\ args[1] \notin DOMAIN environ)
              => envResult = EnvRaised("YAMLException", envBody)

\* C7 (as stated): a set variable gives its value; an unset one gives the
\* remaining tokens joined by single spaces, or, with no such tokens, a loader
\* error naming the variable; and whenever no value is produced, a body with
\* no token included, the failure is a loader error.
C7_EnvVar ==
    envResult # NoEnvResult
        => /\ C7_Value
           /\ envResult.kind = "error" => envResult.err = "YAMLException"

\* What holds instead: the same, for the bodies that hold a token.
C7_EnvVarWithToken ==
    (envResult # NoEnvResult /\ Split(envBody) # <<>>)
        => /\ C7_Value
           /\ envResult.kind = "error" => envResult.err = "YAMLException"

-----------------------------------------------------------------------------
(* C8: scalar construction *)

\* The name the claim gives the loader's stream.
C8_StreamName ==
    CASE scalarStream.kind = "str" -> "<unicode string>"
      [] scalarStream.kind = "bytes" -> "<byte string>"
      [] scalarStream.kind = "stream" /\ ~scalarStream.hasName -> "<file>"
      [] OTHER -> scalarStream.name

\* C8 (as stated): a scalar with a string tag is constructed as a
\* provenance-carrying string equal to the node's text, whose source file is
\* the loader's stream name and whose source line is the start mark's line
\* plus 1 (so at least 1); without a start mark construction does not fail,
\* the source file is set and no line is attached; a scalar with another tag
\* is returned as its plain value.
C8_ScalarConstruction ==
    scalarResult # NoScalarResult =>
        /\ scalarResult.kind = "returned"
        /\ IF scalarNode.tag = "str"
           THEN /\ scalarResult.value.kind = "NodeStrClass"
                /\ scalarResult.value.text = scalarNode.value.text
                /\ scalarResult.value.hasFile
                /\ scalarResult.value.config_file = C8_StreamName
                /\ IF scalarNode.start_mark.present
                   THEN /\ scalarResult.value.hasLine
                        /\ scalarResult.value.line = scalarNode.start_mark.line + 1
                        /\ scalarResult.value.line >= 1
                   ELSE ~scalarResult.value.hasLine
           ELSE /\ scalarResult.value.kind = "plain"
                /\ scalarResult.value.text = scalarNode.value.text

\* What holds instead: the same, for the nodes that have a start mark.
C8_ScalarConstructionMarked ==
    scalarNode # <<>> /\ scalarNode.start_mark.present => C8_ScalarConstruction

-----------------------------------------------------------------------------
(* C5: what load_yaml raises *)

\* The file the failing call was made on: the last nested load, or the
\* top-level file when there was none.
C5_TopFile == FileAtPath(fileSystem, loadFname)

C5_LastFile ==
    IF opened = <<>> THEN C5_TopFile
    ELSE FileAtPath(fileSystem, opened[Len(opened)].fname)

\* C5 (as stated): FileNotFoundError leaves load_yaml if and only if the
\* top-level file does not exist; a file that cannot be read or decoded gives
\* a YAMLException carrying the cause; and a missing target of an !include, at
\* any depth, gives the YAMLException "Unable to read file <path>" naming the
\* path and the include node's location, never FileNotFoundError.
C5_ErrorMapping ==
    loadResult # NoLoadResult =>
        /\ (loadResult.kind = "raised" /\ loadResult.exc = "FileNotFoundError")
               <=> C5_TopFile.kind = "missing"
        /\ C5_LastFile.kind = "denied" =>
               /\ loadResult.kind = "raised"
               /\ loadResult.exc = "YAMLException"
               /\ loadResult.cause = "PermissionError"
        /\ C5_LastFile.kind = "undecodable" =>
               /\ loadResult.kind = "raised"
               /\ loadResult.exc = "YAMLException"
               /\ loadResult.cause = "UnicodeDecodeError"
        /\ ( /\ opened # <<>>
             /\ opened[Len(opened)].tag = "!include"
             /\ C5_LastFile.kind \in { "missing", "dangling" } ) =>
               /\ loadResult.kind = "raised"
               /\ loadResult.exc = "YAMLException"
               /\ loadResult.msg.what = "Unable to read file"
               /\ loadResult.msg.fname = opened[Len(opened)].fname
               /\ loadResult.msg.in = opened[Len(opened)].from
               /\ loadResult.msg.line = opened[Len(opened)].line + 1

\* What holds instead: the same, as long as no directory scan is handed a
\* file that open() cannot find.
C5_ErrorMappingOfIncludes ==
    ~(\E i \in DOMAIN opened :
          /\ opened[i].tag = "!include_dir_list"
          /\ FileAtPath(fileSystem, opened[i].fname).kind = "dangling")
        => C5_ErrorMapping

-----------------------------------------------------------------------------
(* C9: !include *)

\* The file an !include in the given file names, as the claim has it: the
\* path taken from the directory that holds the referencing file.
C9_Target(file, path) ==
    IF path.abs THEN Normalize(<<>>, path.parts)
    ELSE Normalize(<<>>, SubSeq(file, 1, Len(file) - 1) \o path.parts)

C9_RefIs(ref, file, line) ==
    /\ ref # NoRef
    /\ Resolve(ref.file) = file
    /\ ref.line = line

C9_DocAt(file) == IF file \in DOMAIN fileSystem THEN fileSystem[file].doc ELSE <<>>

\* v holds the entries of the document in file, each stamped with that file
\* and its own line, and each !include among them as C9_Include says.
RECURSIVE C9_Nested(_, _)
RECURSIVE C9_Include(_, _, _, _)
C9_Nested(v, file) ==
    LET doc == C9_DocAt(file)
    IN  /\ Len(v.items) = Len(doc)
        /\ \A j \in DOMAIN doc :
              /\ v.items[j].key.text = doc[j].key
              /\ C9_RefIs(v.items[j].key.ref, file, j)
              /\ CASE doc[j].tag = "!include" ->
                          C9_Include(v.items[j].value, file, j, doc[j].path)
                   [] doc[j].tag = "str" ->
                          /\ v.items[j].value.text = doc[j].text
                          /\ C9_RefIs(v.items[j].value.ref, file, j)
                   [] doc[j].tag = "int" ->
                          /\ v.items[j].value.kind = "plain"
                          /\ v.items[j].value.text = doc[j].text
                   [] OTHER -> TRUE

\* v is a mapping stamped with the referencing file and the include's line,
\* empty for an empty document, holding the included document otherwise.
C9_Include(v, file, line, path) ==
    /\ v.kind = "NodeDictClass"
    /\ C9_RefIs(v.ref, file, line)
    /\ IF C9_DocAt(C9_Target(file, path)) = <<>>
       THEN v.items = <<>>
       ELSE C9_Nested(v, C9_Target(file, path))

\* C9: a finished load opened, for every !include, the file the path names
\* from the directory of the referencing file, with the Secrets instance of the
\* top-level call; and in what it returned, the value of every !include is a
\* mapping stamped with the referencing file and the include's line, empty if
\* the included document is, whose nested keys and strings are stamped with
\* the included file and their own lines.
C9_Include_Resolves ==
    loadResult # NoLoadResult =>
        /\ \A i \in DOMAIN opened :
              /\ opened[i].secrets = loadSecrets
              /\ opened[i].tag = "!include" =>
                    Resolve(opened[i].fname) =
                        C9_Target(Resolve(opened[i].from),
                                  C9_DocAt(Resolve(opened[i].from))[opened[i].line + 1].path)
        /\ (loadResult.kind = "returned" /\ loadResult.value # PyNone) =>
              C9_Nested(loadResult.value, Resolve(loadFname))

\* d/a.yaml, loaded under a relative name with a Secrets instance, included
\* b.yaml: /c/d/b.yaml was loaded, not /c/b.yaml, and its two entries are in
\* the value.
C9_Witness ==
    /\ loadResult.kind = "returned"
    /\ loadSecrets = "secrets"
    /\ ~loadFname.abs
    /\ opened # <<>>
    /\ opened[Len(opened)].tag = "!include"
    /\ Resolve(opened[Len(opened)].from) = LoadPath.mid
    /\ Resolve(opened[Len(opened)].fname) = LoadPath.dleaf
    /\ Len(C9_DocAt(LoadPath.dleaf)) = 2
    /\ C9_DocAt(LoadPath.leaf) # <<>>

-----------------------------------------------------------------------------
(* C10: the cache *)

-----------------------------------------------------------------------------
(* C11: Secrets.get terminates *)

\* C11 (as stated): Secrets.get terminates for every requester path and every
\* root, also when the secret is defined nowhere and the root is the top of
\* the hierarchy ("/", or "." for relative paths): the walk visits finitely
\* many directories and then returns or raises.  Over files nobody touches,
\* an iteration of the loop is a function of secret_dir and the cache, and it
\* either ends the call or goes on from the parent directory; so the walk is
\* finite exactly if every iteration that goes on has moved to a shorter
\* directory.
C11_GetTerminates ==
    [][(pc = "walk" /\ pc' = "walk")
          => Len(secret_dir'.parts) < Len(secret_dir.parts)]_vars

\* The same as a property of the behaviours of SpecFair: a lookup under way
\* ends.  It fails in the same states: there the loop goes round without
\* changing anything.
C11_GetEnds == (pc = "walk") ~> (pc = "done")

\* What holds instead: the same, under a root that is not the top.
C11_GetTerminatesBelowTop ==
    [][(pc = "walk" /\ pc' = "walk" /\ config_dir.parts # <<>>)
          => Len(secret_dir'.parts) < Len(secret_dir.parts)]_vars

C11_GetEndsBelowTop == (pc = "walk" /\ config_dir.parts # <<>>) ~> (pc = "done")

====
